---- MODULE Spec2Model ----
(***************************************************************************)
(* Model of volta-core's npm shim dispatcher                               *)
(* (crates/volta-core/src/run_package_global/npm.rs).                      *)
(*                                                                         *)
(* An argument (OsString) is a sequence of one-character strings; a byte   *)
(* that is not valid UTF-8 is the pseudo-character BadByte.  A Fallible<T> *)
(* is [ok |-> TRUE, val |-> v] or [ok |-> FALSE, err |-> e]; an Option<T>  *)
(* is [some |-> TRUE, val |-> v] or [some |-> FALSE].                      *)
(***************************************************************************)
EXTENDS Integers, Sequences, FiniteSets, TLC

VARIABLES args, session, pc, classified, result, queries, ctx

vars == <<args, session, pc, classified, result, queries, ctx>>

\* ------------------------------------------------------------- bounds

\* Longest argument list given to check_npm_install in SpecClassify.
MaxArgs == 4

\* Longest argument list given to command() in Spec.
MaxCmdArgs == 4

\* ------------------------------------------------------- value shapes

Ok(v) == [ok |-> TRUE, val |-> v]

Err(e) == [ok |-> FALSE, err |-> e]

Some(v) == [some |-> TRUE, val |-> v]

None == [some |-> FALSE]

\* A byte sequence that is not valid UTF-8, and what to_string_lossy puts
\* in its place (U+FFFD).
BadByte == "\\xFF"

ReplacementChar == "U+FFFD"

\* ------------------------------------------------------------- tokens

TokG == <<"-", "g">>

TokGlobal == <<"-", "-", "g", "l", "o", "b", "a", "l">>

TokGlobalTypo == <<"-", "g", "l", "o", "b", "a", "l">>

TokSaveDev == <<"-", "D">>

TokRawDash == <<"-", BadByte>>

TokInstall == <<"i", "n", "s", "t", "a", "l", "l">>

TokI == <<"i">>

TokAdd == <<"a", "d", "d">>

TokIsntall == <<"i", "s", "n", "t", "a", "l", "l">>

TokLs == <<"l", "s">>

TokLodash == <<"l", "o", "d", "a", "s", "h">>

TokNpm9 == <<"n", "p", "m", "@", "9">>

TokYarn == <<"y", "a", "r", "n">>

TokScoped == <<"@", "a", "/", "b", "@", "1">>

TokEmpty == <<>>

\* The argument tokens check_npm_install is exercised on.
Tokens ==
    { TokG, TokGlobal, TokGlobalTypo, TokSaveDev, TokRawDash,
      TokInstall, TokI, TokAdd, TokIsntall, TokLs,
      TokLodash, TokNpm9, TokYarn, TokScoped, TokEmpty }

\* The argument tokens command() is exercised on.
CmdTokens ==
    { TokG, TokGlobal, TokGlobalTypo, TokI, TokLs, TokLodash, TokNpm9, TokEmpty }

ListsOver(T, n) == UNION { [1..k -> T] : k \in 0..n }

ArgLists == ListsOver(Tokens, MaxArgs)

CmdArgLists == ListsOver(CmdTokens, MaxCmdArgs)

\* ------------------------------------------------ OsString conversions

\* OsStr::to_str: Some(text) when every byte decodes, None otherwise.
to_str(arg) ==
    IF \E i \in 1..Len(arg) : arg[i] = BadByte THEN None ELSE Some(arg)

\* OsStr::to_string_lossy: undecodable bytes become U+FFFD.
to_string_lossy(arg) ==
    [i \in 1..Len(arg) |-> IF arg[i] = BadByte THEN ReplacementChar ELSE arg[i]]

starts_with_dash(text) == Len(text) >= 1 /\ text[1] = "-"

\* ------------------------------------------------------ Spec::try_from_str

\* Index of the last "@" that is not at position 1, or 0.
LastAt(text) ==
    LET at == { i \in 2..Len(text) : text[i] = "@" }
    IN  IF at = {} THEN 0 ELSE CHOOSE i \in at : \A j \in at : j <= i

CoreKind(name) ==
    IF name = <<"n", "o", "d", "e">> THEN "Node"
    ELSE IF name = <<"n", "p", "m">> THEN "Npm"
    ELSE IF name = <<"y", "a", "r", "n">> THEN "Yarn"
    ELSE "Package"

\* A tool spec; version <<>> is "unspecified".
ToolSpec(kind, name, version) == [kind |-> kind, name |-> name, version |-> version]

try_from_str(text) ==
    LET p       == LastAt(text)
        name    == IF p = 0 THEN text ELSE SubSeq(text, 1, p - 1)
        version == IF p = 0 THEN <<>> ELSE SubSeq(text, p + 1, Len(text))
    IN  IF name = <<>>
        THEN Err("ParseToolSpecError")
        ELSE Ok(ToolSpec(CoreKind(name), name, version))

\* ------------------------------------------------------ check_npm_install

NotGlobalAdd == [tag |-> "NotGlobalAdd"]

GlobalAdd(tool) == [tag |-> "GlobalAdd", tool |-> tool]

\* Mutant: a prefix test in place of the equality with "-g".
has_global_flag_prefix(a) ==
    \E i \in 1..Len(a) :
        \/ (Len(a[i]) >= 2 /\ a[i][1] = "-" /\ a[i][2] = "g")
        \/ a[i] = TokGlobal

\* args.iter().any(|arg| arg == "-g" || arg == "--global")
has_global_flag(a) == \E i \in 1..Len(a) : a[i] = TokG \/ a[i] = TokGlobal

\* The filter closure: keep what does not decode, and text not starting with '-'.
is_positional(arg) ==
    LET s == to_str(arg)
    IN  IF s.some THEN ~starts_with_dash(s.val) ELSE TRUE

\* Mutant: the flags are not filtered out.
filtered_keep_flags(a) == a

filtered(a) == SelectSeq(a, is_positional)

\* Mutant: the alias `isntall` is left out.
is_install_alias_no_typo(cmd) ==
    cmd = TokInstall \/ cmd = TokI \/ cmd = TokAdd

\* cmd == "install" || cmd == "i" || cmd == "add" || cmd == "isntall"
is_install_alias(cmd) ==
    cmd = TokInstall \/ cmd = TokI \/ cmd = TokAdd \/ cmd = TokIsntall

\* Mutant: a token that does not parse is taken as a package of that name.
classify_package_unparsed(package) ==
    LET parsed == try_from_str(to_string_lossy(package))
    IN  IF parsed.ok
        THEN GlobalAdd(parsed.val)
        ELSE GlobalAdd(ToolSpec("Package", to_string_lossy(package), <<>>))

\* Ok(tool) => GlobalAdd(tool), Err(_) => NotGlobalAdd
classify_package(package) ==
    LET parsed == try_from_str(to_string_lossy(package))
    IN  IF parsed.ok THEN GlobalAdd(parsed.val) ELSE NotGlobalAdd

check_npm_install(a) ==
    IF ~has_global_flag(a)
    THEN NotGlobalAdd
    ELSE LET f == filtered(a)
         IN  IF Len(f) >= 2 /\ is_install_alias(f[1])
             THEN classify_package(f[2])
             ELSE NotGlobalAdd

\* ------------------------------------------------------------ session

DefaultSpec == [node |-> "20.11.0", npm |-> None, yarn |-> None]

ProjectSpec == [node |-> "18.19.0", npm |-> Some("9.8.1"), yarn |-> None]

as_default(spec) == [spec |-> spec, source |-> "default"]

as_project(spec) == [spec |-> spec, source |-> "project"]

\* What each of the session's two reads yields.
DefaultOutcomes == { Ok(None), Ok(Some(DefaultSpec)), Err("default platform read failed") }

ProjectOutcomes == { Ok(None), Ok(Some(ProjectSpec)), Err("project platform read failed") }

Sessions == [default : DefaultOutcomes, project : ProjectOutcomes]

\* session.default_platform()
default_platform(s) == s.default

\* Platform::current(session): project-pinned, else default, else none.
platform_current(s) ==
    IF ~s.project.ok THEN Err(s.project.err)
    ELSE IF s.project.val.some THEN Ok(Some(as_project(s.project.val.val)))
    ELSE IF ~s.default.ok THEN Err(s.default.err)
    ELSE IF s.default.val.some THEN Ok(Some(as_default(s.default.val.val)))
    ELSE Ok(None)

\* ----------------------------------------------------------- executors

ToolCommand(exe, a, platform, kind) ==
    [kind |-> "ToolCommand", exe |-> exe, args |-> a, platform |-> platform,
     tool_kind |-> kind]

InternalInstallCommand(tool) == [kind |-> "InternalInstallCommand", tool |-> tool]

\* PackageInstallCommand::new is fallible (the `?` after it).
PackageInstallCommand(name, a, platform, manager, installerOk) ==
    IF installerOk
    THEN Ok([kind |-> "PackageInstallCommand", name |-> name, args |-> a,
             platform |-> platform, manager |-> manager])
    ELSE Err("package installer setup failed")

\* -------------------------------------------------------------- command

\* What command() hands back, with the platform queries it issued, in order.
Returned(r, q) == [result |-> r, queries |-> q]

\* Mutant: the ToolCommand is given the filtered arguments.
pass_through_filtered(a, s, q) ==
    LET platform == platform_current(s)
        q2       == Append(q, "current")
    IN  IF ~platform.ok
        THEN Returned(Err(platform.err), q2)
        ELSE Returned(Ok(ToolCommand("npm", filtered(a), platform.val, "Npm")), q2)

\* Lines 36-38: the pass-through path.
pass_through(a, s, q) ==
    LET platform == platform_current(s)
        q2       == Append(q, "current")
    IN  IF ~platform.ok
        THEN Returned(Err(platform.err), q2)
        ELSE Returned(Ok(ToolCommand("npm", a, platform.val, "Npm")), q2)

\* Mutant: the package is installed into the current platform, not the default.
package_arm_current_platform(name, a, s, installerOk) ==
    LET cur == platform_current(s)
        q   == <<"current">>
    IN  IF ~cur.ok
        THEN Returned(Err(cur.err), q)
        ELSE IF cur.val.some
        THEN Returned(PackageInstallCommand(name, a, cur.val.val, "Npm", installerOk), q)
        ELSE Returned(Ok(ToolCommand("npm", a, None, "Npm")), q)

\* Mutant: no default platform is reported as an error.
package_arm_no_platform_error(name, a, s, installerOk) ==
    LET dflt == default_platform(s)
        q    == <<"default">>
    IN  IF ~dflt.ok
        THEN Returned(Err(dflt.err), q)
        ELSE IF dflt.val.some
        THEN Returned(PackageInstallCommand(name, a, as_default(dflt.val.val),
                                            "Npm", installerOk), q)
        ELSE Returned(Err("NoPlatform"), q)

\* Mutant: a failed default-platform read is taken as no default platform.
package_arm_swallows_error(name, a, s, installerOk) ==
    LET dflt == default_platform(s)
        q    == <<"default">>
    IN  IF dflt.ok /\ dflt.val.some
        THEN Returned(PackageInstallCommand(name, a, as_default(dflt.val.val),
                                            "Npm", installerOk), q)
        ELSE pass_through(a, s, q)

\* Lines 22-29: GlobalAdd(Spec::Package(name, _)).
package_arm(name, a, s, installerOk) ==
    LET dflt == default_platform(s)
        q    == <<"default">>
    IN  IF ~dflt.ok
        THEN Returned(Err(dflt.err), q)
        ELSE IF dflt.val.some
        THEN Returned(PackageInstallCommand(name, a, as_default(dflt.val.val),
                                            "Npm", installerOk), q)
        ELSE pass_through(a, s, q)

\* Lines 30-32: GlobalAdd(tool) for any other tool.
internal_arm(tool) == Returned(Ok(InternalInstallCommand(tool)), <<>>)

\* Mutant: the first match arm takes every GlobalAdd.
command_first_arm_takes_all(a, s, installerOk) ==
    LET c == check_npm_install(a)
    IN  IF c.tag = "GlobalAdd"
        THEN package_arm(c.tool.name, a, s, installerOk)
        ELSE pass_through(a, s, <<>>)

command(a, s, installerOk) ==
    LET c == check_npm_install(a)
    IN  IF c.tag = "GlobalAdd" /\ c.tool.kind = "Package"
        THEN package_arm(c.tool.name, a, s, installerOk)
        ELSE IF c.tag = "GlobalAdd"
        THEN internal_arm(c.tool)
        ELSE pass_through(a, s, <<>>)

\* ---------------------------------------------------- execution_context

SystemPath == [kind |-> "system_path"]

ImagePath(platform) == [kind |-> "image_path", image |-> platform]

\* Mutant: the two error kinds are swapped.
execution_context_swapped(platform, checkoutOk, pathOk) ==
    IF platform.some
    THEN IF ~checkoutOk THEN Err("checkout failed")
         ELSE IF ~pathOk THEN Err("image path failed")
         ELSE Ok(<<ImagePath(platform.val), "NoPlatform">>)
    ELSE IF ~pathOk THEN Err("system path failed")
         ELSE Ok(<<SystemPath, "BinaryExecError">>)

execution_context(platform, checkoutOk, pathOk) ==
    IF platform.some
    THEN IF ~checkoutOk THEN Err("checkout failed")
         ELSE IF ~pathOk THEN Err("image path failed")
         ELSE Ok(<<ImagePath(platform.val), "BinaryExecError">>)
    ELSE IF ~pathOk THEN Err("system path failed")
         ELSE Ok(<<SystemPath, "NoPlatform">>)

\* -------------------------------------------------------------- actions

NoResult == [pending |-> TRUE]

Init ==
    /\ args \in CmdArgLists
    /\ session \in Sessions
    /\ pc = "start"
    /\ classified = NoResult
    /\ result = NoResult
    /\ queries = <<>>
    /\ ctx = NoResult

\* One call of command(args, session).
Command ==
    /\ pc = "start"
    /\ \E installerOk \in BOOLEAN :
          LET out == command(args, session, installerOk)
          IN  /\ result' = out.result
              /\ queries' = out.queries
    /\ classified' = check_npm_install(args)
    /\ pc' = "dispatched"
    /\ UNCHANGED <<args, session, ctx>>

\* The launcher's call of execution_context on a ToolCommand's platform.
ExecutionContext ==
    /\ pc = "dispatched"
    /\ result.ok
    /\ result.val.kind = "ToolCommand"
    /\ \E checkoutOk \in BOOLEAN, pathOk \in BOOLEAN :
          ctx' = execution_context(result.val.platform, checkoutOk, pathOk)
    /\ pc' = "launched"
    /\ UNCHANGED <<args, session, classified, result, queries>>

Next == Command \/ ExecutionContext

Spec == Init /\ [][Next]_vars

\* check_npm_install alone, on the wider token set.
InitClassify ==
    /\ args \in ArgLists
    /\ session = [default |-> Ok(None), project |-> Ok(None)]
    /\ pc = "start"
    /\ classified = NoResult
    /\ result = NoResult
    /\ queries = <<>>
    /\ ctx = NoResult

Classify ==
    /\ pc = "start"
    /\ classified' = check_npm_install(args)
    /\ pc' = "classified"
    /\ UNCHANGED <<args, session, result, queries, ctx>>

NextClassify == Classify

SpecClassify == InitClassify /\ [][NextClassify]_vars

\* ------------------------------------------------- the claims' vocabulary

\* A token that is exactly `-g` or `--global`.
GlobalToken(tok) == tok = <<"-", "g">> \/ tok = <<"-", "-", "g", "l", "o", "b", "a", "l">>

HasGlobalToken(a) == \E i \in 1..Len(a) : GlobalToken(a[i])

\* A flag token: text that starts with `-` (a token that does not decode is
\* not a flag).
FlagToken(tok) ==
    /\ \A i \in 1..Len(tok) : tok[i] # BadByte
    /\ Len(tok) >= 1
    /\ tok[1] = "-"

NonFlagToken(tok) == ~FlagToken(tok)

NonFlags(a) == SelectSeq(a, NonFlagToken)

InstallAlias(tok) ==
    tok \in { <<"i", "n", "s", "t", "a", "l", "l">>, <<"i">>, <<"a", "d", "d">>,
              <<"i", "s", "n", "t", "a", "l", "l">> }

Parsed(tok) == try_from_str(to_string_lossy(tok))

WellFormed(tok) == Parsed(tok).ok

IsGlobalAddPackage(c) == c.tag = "GlobalAdd" /\ c.tool.kind = "Package"

IsGlobalAddCore(c) == c.tag = "GlobalAdd" /\ c.tool.kind \in {"Node", "Npm", "Yarn"}

\* command() has returned.
Dispatched == pc \in {"dispatched", "launched"}

Returns(kind) == Dispatched /\ result.ok /\ result.val.kind = kind

\* ------------------------------------------------------------------- C1

\* C1: an argument list with no token exactly `-g` or `--global` classifies
\* as NotGlobalAdd, and command() returns neither a PackageInstallCommand
\* nor an InternalInstallCommand for it.
C1_NoGlobalFlagNeverRedirects ==
    (Dispatched /\ ~HasGlobalToken(args)) =>
        /\ classified = NotGlobalAdd
        /\ ~Returns("PackageInstallCommand")
        /\ ~Returns("InternalInstallCommand")

\* `i -global lodash`: an install alias and a package, but only a near miss
\* of the global flag.
C1_Witness ==
    /\ pc = "dispatched"
    /\ args = <<TokI, TokGlobalTypo, TokLodash>>
    /\ classified = NotGlobalAdd
    /\ Returns("ToolCommand")

\* ------------------------------------------------------------------- C2

\* C2 as stated: with a global flag, an install alias anywhere in the list
\* that is followed (flags ignored) by a well-formed package token makes the
\* classification GlobalAdd of that token's spec.
C2_AliasAnywhere ==
    (pc = "classified" /\ HasGlobalToken(args)) =>
        \A i \in 1..Len(args), j \in 1..Len(args) :
            ( /\ i < j
              /\ InstallAlias(args[i])
              /\ \A k \in (i + 1)..(j - 1) : FlagToken(args[k])
              /\ NonFlagToken(args[j])
              /\ WellFormed(args[j]) )
            => classified = GlobalAdd(Parsed(args[j]).val)

\* C2 amended: with a global flag, when the first non-flag token is an
\* install alias and the second non-flag token is a well-formed package
\* token, the classification is GlobalAdd of that token's spec.
C2_AliasFirst ==
    ( /\ pc = "classified"
      /\ HasGlobalToken(args)
      /\ Len(NonFlags(args)) >= 2
      /\ InstallAlias(NonFlags(args)[1])
      /\ WellFormed(NonFlags(args)[2]) )
    => classified = GlobalAdd(Parsed(NonFlags(args)[2]).val)

\* `--global isntall -D @a/b@1`
C2_Witness ==
    /\ pc = "classified"
    /\ args = <<TokGlobal, TokIsntall, TokSaveDev, TokScoped>>
    /\ classified = GlobalAdd(ToolSpec("Package", <<"@", "a", "/", "b">>, <<"1">>))

\* ------------------------------------------------------------------- C3

\* What C3 expects command() to return.
C3_Expected ==
    Ok([kind |-> "PackageInstallCommand", name |-> classified.tool.name,
        args |-> args, platform |-> as_default(session.default.val.val),
        manager |-> "Npm"])

C3_OnlyWhenPackageAndDefault ==
    Returns("PackageInstallCommand") =>
        /\ IsGlobalAddPackage(classified)
        /\ session.default.ok
        /\ session.default.val.some

\* C3 as stated: GlobalAdd(Package(name, _)) with a default platform always
\* returns the PackageInstallCommand of name, args, that platform and Npm,
\* with no current-platform query; and a PackageInstallCommand comes only
\* from that case.
C3_AlwaysPackageInstall ==
    Dispatched =>
        /\ ( IsGlobalAddPackage(classified) /\ session.default.ok
             /\ session.default.val.some )
           => (result = C3_Expected /\ queries = <<"default">>)
        /\ C3_OnlyWhenPackageAndDefault

\* C3 amended: in that case command() returns that PackageInstallCommand or
\* the error PackageInstallCommand::new raised, with no current-platform
\* query either way; and a PackageInstallCommand comes only from that case.
C3_PackageInstallOrItsError ==
    Dispatched =>
        /\ ( IsGlobalAddPackage(classified) /\ session.default.ok
             /\ session.default.val.some )
           => /\ result = C3_Expected \/ result = Err("package installer setup failed")
              /\ queries = <<"default">>
        /\ C3_OnlyWhenPackageAndDefault

\* A project pin is present too, and the default platform is the one used.
C3_Witness ==
    /\ pc = "dispatched"
    /\ IsGlobalAddPackage(classified)
    /\ session.project.ok /\ session.project.val.some
    /\ Returns("PackageInstallCommand")
    /\ result.val.platform = as_default(DefaultSpec)

\* ------------------------------------------------------------------- C4

\* C4: GlobalAdd(Package) with no default platform falls through: the
\* current platform is queried next and, when that read succeeds, the result
\* is ToolCommand("npm", args, project pin or absent); the only error
\* returned is the one that read raised.
C4_NoDefaultFallsThrough ==
    ( /\ Dispatched
      /\ IsGlobalAddPackage(classified)
      /\ session.default = Ok(None) )
    => /\ queries = <<"default", "current">>
       /\ session.project.ok =>
            result = Ok(ToolCommand("npm", args,
                         IF session.project.val.some
                         THEN Some(as_project(session.project.val.val))
                         ELSE None,
                         "Npm"))
       /\ ~session.project.ok => result = Err(session.project.err)

C4_Witness ==
    /\ pc = "dispatched"
    /\ IsGlobalAddPackage(classified)
    /\ session.default = Ok(None)
    /\ session.project = Ok(None)
    /\ Returns("ToolCommand")
    /\ result.val.platform = None

\* ------------------------------------------------------------------- C5

\* C5: GlobalAdd of a core tool (Node, Npm, Yarn) returns
\* InternalInstallCommand of that spec in every state of the session, and
\* no platform query is issued.
C5_CoreToolInternalInstall ==
    (Dispatched /\ IsGlobalAddCore(classified)) =>
        /\ result = Ok(InternalInstallCommand(classified.tool))
        /\ queries = <<>>

\* Both platform reads would fail, and the install is still redirected.
C5_Witness ==
    /\ pc = "dispatched"
    /\ IsGlobalAddCore(classified)
    /\ ~session.default.ok
    /\ ~session.project.ok
    /\ Returns("InternalInstallCommand")

\* ------------------------------------------------------------------- C6

\* C6: every ToolCommand and PackageInstallCommand returned carries exactly
\* the argument sequence command() was called with.
C6_ArgsPreserved ==
    (Returns("ToolCommand") \/ Returns("PackageInstallCommand")) =>
        result.val.args = args

\* A PackageInstallCommand whose list holds flags the classifier skipped.
C6_Witness ==
    /\ pc = "dispatched"
    /\ Returns("PackageInstallCommand")
    /\ Len(NonFlags(args)) < Len(args)
    /\ args[1] = TokG
    /\ result.val.args = args

\* ------------------------------------------------------------------- C7

\* C7: a successful execution_context(None) is the system path with
\* NoPlatform, and a successful execution_context(Some(p)) is p's image path
\* with BinaryExecError.
C7_ContextPairs ==
    (pc = "launched" /\ ctx.ok) =>
        IF result.val.platform.some
        THEN ctx.val = <<[kind |-> "image_path", image |-> result.val.platform.val],
                         "BinaryExecError">>
        ELSE ctx.val = <<[kind |-> "system_path"], "NoPlatform">>

C7_Witness ==
    /\ pc = "launched"
    /\ ctx.ok
    /\ result.val.platform = Some(as_project(ProjectSpec))
    /\ ctx.val[2] = "BinaryExecError"

\* ------------------------------------------------------------------- C8

\* C8: with a global flag, an install alias as the command and a package
\* token that fails to parse, the classification is NotGlobalAdd and
\* command() takes the pass-through path: the current platform is the only
\* query, the result is a ToolCommand, or the error of that query and never
\* the parse error.
C8_BadPackagePassesThrough ==
    ( /\ Dispatched
      /\ HasGlobalToken(args)
      /\ Len(NonFlags(args)) >= 2
      /\ InstallAlias(NonFlags(args)[1])
      /\ ~WellFormed(NonFlags(args)[2]) )
    => /\ classified = NotGlobalAdd
       /\ queries = <<"current">>
       /\ result.ok => (result.val.kind = "ToolCommand" /\ result.val.args = args)
       /\ ~result.ok => /\ result = Err(platform_current(session).err)
                         /\ result.err # "ParseToolSpecError"

\* `i -g ""`
C8_Witness ==
    /\ pc = "dispatched"
    /\ args = <<TokI, TokG, TokEmpty>>
    /\ classified = NotGlobalAdd
    /\ Returns("ToolCommand")

\* ------------------------------------------------------------------- C9

\* The first two non-flag tokens of a list (fewer when it has fewer).
FirstTwoNonFlags(a) == SubSeq(NonFlags(a), 1, IF Len(NonFlags(a)) < 2 THEN Len(NonFlags(a)) ELSE 2)

\* C9: with a global flag, a list classifies as the list made of the global
\* flag and its first two non-flag tokens does, so lists that agree on those
\* two tokens classify identically; and with fewer than two non-flag tokens,
\* or a first one that is no install alias, the list is NotGlobalAdd.
C9_FirstTwoNonFlagsDecide ==
    (pc = "classified" /\ HasGlobalToken(args)) =>
        /\ classified = check_npm_install(<<TokG>> \o FirstTwoNonFlags(args))
        /\ (Len(NonFlags(args)) < 2 \/ ~InstallAlias(NonFlags(args)[1]))
           => classified = NotGlobalAdd

\* `add --global lodash i`: a flag interleaved, a repeated alias trailing.
C9_Witness ==
    /\ pc = "classified"
    /\ args = <<TokAdd, TokGlobal, TokLodash, TokI>>
    /\ FirstTwoNonFlags(args) = <<TokAdd, TokLodash>>
    /\ classified = GlobalAdd(ToolSpec("Package", TokLodash, <<>>))

\* ------------------------------------------------------------------ C10

\* The error the current-platform query raises, if it does.
CurrentQueryFails == ~platform_current(session).ok

\* C10: a failed default-platform query under GlobalAdd(Package), and a
\* failed current-platform query on the pass-through path, come back from
\* command() as that same error; the default platform is queried only for
\* GlobalAdd(Package), and before any current-platform query.
C10_QueryErrorsPropagate ==
    Dispatched =>
        /\ (IsGlobalAddPackage(classified) /\ ~session.default.ok)
           => (result = Err(session.default.err) /\ queries = <<"default">>)
        /\ ( /\ classified = NotGlobalAdd \/ (IsGlobalAddPackage(classified)
                                              /\ session.default = Ok(None))
             /\ CurrentQueryFails )
           => result = Err(platform_current(session).err)
        /\ (\E i \in 1..Len(queries) : queries[i] = "default")
           => (IsGlobalAddPackage(classified) /\ queries[1] = "default")
        /\ queries \in { <<>>, <<"default">>, <<"current">>, <<"default", "current">> }

\* The default read fails under GlobalAdd(Package) though a project pin exists.
C10_Witness ==
    /\ pc = "dispatched"
    /\ IsGlobalAddPackage(classified)
    /\ ~session.default.ok
    /\ session.project.ok /\ session.project.val.some
    /\ result = Err("default platform read failed")
    /\ queries = <<"default">>

====
